---- MODULE Spec2Model ----
(***************************************************************************)
(* Model of the revm-tracer core: the CallTracer inspector                 *)
(* (rust/src/trace/inspector.rs) driven by an execution engine, and the    *)
(* trace_transaction / trace_transaction_op orchestration                  *)
(* (rust/src/trace/trace.rs).                                              *)
(*                                                                         *)
(* Option<T> is a sequence of length at most one: None is <<>> and         *)
(* Some(x) is <<x>>.  Bytes are sequences of numbers 0..255.  A Rust       *)
(* String built by format! is a sequence of one-character strings.         *)
(*                                                                         *)
(* The engine is an external collaborator: it is modelled as an emitter    *)
(* that calls the Inspector hooks with arguments drawn from small sets.    *)
(* The history variables nEnter, open, hist, wn, nLog and nStray record    *)
(* what the engine did (its own view of the call nesting).  They decide    *)
(* which hooks the engine may emit next and tag each frame with the        *)
(* ordinal of the hook that created it; call_stack, root and result are    *)
(* computed from call_stack and the hook arguments alone.                  *)
(*                                                                         *)
(* The state provider of rust/src/trace/database.rs is modelled from the   *)
(* specification (AccountOf, with_account, basic): an account of the       *)
(* snapshot with its absent fields zero, a defaulted account for an        *)
(* address the snapshot omits.  The engine's journal maps each address it  *)
(* has loaded to the account as loaded and as written since.               *)
(*                                                                         *)
(* Five specifications:                                                    *)
(*   Spec         one request through format_and_trace_transaction: the    *)
(*                arguments are parsed, then trace_transaction or _op;     *)
(*   SpecTracer   the CallTracer alone, hooks in any order, including      *)
(*                hooks emitted while the engine has no frame open;        *)
(*   SpecFields   the CallTracer alone under an engine that keeps to one   *)
(*                well-nested top-level call, with richer hook arguments;  *)
(*   SpecRequests several requests one after the other;                    *)
(*   SpecDb       one request over any of the snapshots, the engine        *)
(*                loading and writing accounts.                            *)
(***************************************************************************)
EXTENDS Integers, Sequences, FiniteSets, TLC

VARIABLES
    pc,          \* "parse", "build", "inspect" (hooks may fire), "consumed"
                 \* or "done"
    args,        \* how the string arguments of the request parse
    tx,          \* Option: what the transaction builder returned
    prestate,    \* the account snapshot parsed from the request
    db,          \* Option: the in-memory database built from the snapshot
    journal,     \* the engine's journaled state: the accounts it has loaded
    inspected,   \* Option: what inspect_one_tx returned
    ctx,         \* Option: the context the engine was built with
    response,    \* Option: the JSON text the boundary operation returned
    nReq,        \* history: number of trace requests started
    is_op_stack, \* TRUE: trace_transaction_op, FALSE: trace_transaction
    call_stack,  \* CallTracer.call_stack : Vec<CallFrame>
    root,        \* Option: what into_result returned once the tracer is consumed
    result,      \* Option: the Result returned by the trace operation
    nEnter,      \* history: number of call/create hooks seen
    open,        \* history: ids of the frames the engine has entered and not exited
    hist,        \* history: per frame id, what the engine did with it
    wn,          \* history: the stream so far is a prefix of one well-nested call
    nLog,        \* history: number of log hooks seen
    nStray       \* history: number of hooks seen outside the one top-level call

vars == <<pc, args, tx, prestate, ctx, db, journal, inspected, nReq,
          is_op_stack, call_stack, root, result, response,
          nEnter, open, hist, wn, nLog, nStray>>

hvars == <<nEnter, open, hist, wn, nLog, nStray>>

\* what the hooks of the tracer leave alone
rvars == <<pc, args, tx, prestate, ctx, db, journal, inspected, nReq,
           is_op_stack, root, result, response>>

-----------------------------------------------------------------------------
(* Bounds of the exploration *)

MaxFrames == 3
MaxLogs == 2
MaxStray == 1
MaxFieldFrames == 2
MaxFieldLogs == 1
MaxTxFrames == 2
MaxTxLogs == 1
MaxTxWrites == 1
MaxRequests == 2
MaxReqFrames == 1
MaxReqLogs == 1
MaxWrites == 1
MaxDbFrames == 1
MaxVarFrames == 2
MaxVarLogs == 1

-----------------------------------------------------------------------------
(* Values *)

None == <<>>
Some(x) == <<x>>
IsSome(o) == o /= <<>>
Unwrap(o) == o[1]

Last(s) == s[Len(s)]
Front(s) == SubSeq(s, 1, Len(s) - 1)

ERROR_EXECUTION_REVERTED == "execution reverted"
HEX_PREFIX == <<"0", "x">>

HexDigits == <<"0", "1", "2", "3", "4", "5", "6", "7",
               "8", "9", "a", "b", "c", "d", "e", "f">>

\* hex::encode : two lowercase digits per byte, high nibble first
RECURSIVE hex_encode(_)
hex_encode(bytes) ==
    IF bytes = <<>> THEN <<>>
    ELSE <<HexDigits[(bytes[1] \div 16) + 1], HexDigits[(bytes[1] % 16) + 1]>>
         \o hex_encode(SubSeq(bytes, 2, Len(bytes)))

\* Address::into_array : the 20 bytes of the address, big-endian
\* (addresses of the model are below 65536)
into_array(address) ==
    [i \in 1..20 |-> IF i = 20 THEN address % 256
                     ELSE IF i = 19 THEN (address \div 256) % 256
                     ELSE 0]

\* LogEntry::from(Log)
LogEntryFrom(l) ==
    [address |-> l.address, topics |-> l.topics, data |-> l.data]

\* call_type_from_scheme counting the schemes from one
call_type_from_scheme_FromOne(scheme) ==
    CASE scheme = 1 -> "CALL"
      [] scheme = 2 -> "CALLCODE"
      [] scheme = 3 -> "DELEGATECALL"
      [] scheme = 4 -> "STATICCALL"
      [] OTHER -> "UNKNOWN"

\* CallTracer::call_type_from_scheme
call_type_from_scheme(scheme) ==
    CASE scheme = 0 -> "CALL"
      [] scheme = 1 -> "CALLCODE"
      [] scheme = 2 -> "DELEGATECALL"
      [] scheme = 3 -> "STATICCALL"
      [] OTHER -> "UNKNOWN"

\* NewFrame with gas_used starting at the gas supplied
NewFrame_GasUsedFull(id, call_type, from, to, value, gas, input) ==
    [id |-> id,
     req |-> nReq,
     call_type |-> call_type,
     from |-> from,
     to |-> to,
     value |-> value,
     gas |-> gas,
     gas_used |-> gas,
     input |-> input,
     output |-> None,
     error |-> None,
     revert_reason |-> None,
     logs |-> <<>>,
     calls |-> <<>>]

\* The CallFrame literal built by call and create.  id and req are history
\* tags (the ordinal of the hook that created the frame and of the request
\* it was created in), not fields of CallFrame.
NewFrame(id, call_type, from, to, value, gas, input) ==
    [id |-> id,
     req |-> nReq,
     call_type |-> call_type,
     from |-> from,
     to |-> to,
     value |-> value,
     gas |-> gas,
     gas_used |-> 0,
     input |-> input,
     output |-> None,
     error |-> None,
     revert_reason |-> None,
     logs |-> <<>>,
     calls |-> <<>>]

\* CallFrameOf without the DELEGATECALL exception
CallFrameOf_NoDelegateSwap(id, inputs) ==
    LET call_type == call_type_from_scheme(inputs.scheme)
        value == IF IsSome(inputs.transfer_value)
                 THEN Unwrap(inputs.transfer_value) ELSE 0
    IN NewFrame(id, call_type, inputs.caller, Some(inputs.target_address),
                value, inputs.gas_limit, inputs.input)

\* CallFrameOf that reports the bytecode address as to for every call kind
CallFrameOf_ToBytecode(id, inputs) ==
    LET call_type == call_type_from_scheme(inputs.scheme)
        value == IF IsSome(inputs.transfer_value)
                 THEN Unwrap(inputs.transfer_value) ELSE 0
        from == IF call_type = "DELEGATECALL"
                THEN inputs.target_address ELSE inputs.caller
    IN NewFrame(id, call_type, from, Some(inputs.bytecode_address), value,
                inputs.gas_limit, inputs.input)

\* The frame built by Inspector::call from CallInputs
CallFrameOf(id, inputs) ==
    LET call_type == call_type_from_scheme(inputs.scheme)
        value == IF IsSome(inputs.transfer_value)
                 THEN Unwrap(inputs.transfer_value) ELSE 0
        from == IF call_type = "DELEGATECALL"
                THEN inputs.target_address ELSE inputs.caller
        to == IF call_type = "DELEGATECALL"
              THEN Some(inputs.bytecode_address) ELSE Some(inputs.target_address)
    IN NewFrame(id, call_type, from, to, value, inputs.gas_limit, inputs.input)

\* The frame built by Inspector::create from CreateInputs
CreateFrameOf(id, inputs) ==
    LET call_type == IF inputs.scheme = "Create" THEN "CREATE" ELSE "CREATE2"
    IN NewFrame(id, call_type, inputs.caller, None, inputs.value,
                inputs.gas_limit, inputs.init_code)

\* ClosedFrame with gas_used clamped to the frame's gas
ClosedFrame_ClampGas(frame, gas_spent, is_success, output, created_address) ==
    LET f1 == [frame EXCEPT !.gas_used =
                   IF gas_spent > frame.gas THEN frame.gas ELSE gas_spent]
    IN IF is_success
       THEN IF IsSome(created_address)
            THEN [f1 EXCEPT !.to = Some(Unwrap(created_address)),
                            !.output = Some(into_array(Unwrap(created_address)))]
            ELSE [f1 EXCEPT !.output = Some(output)]
       ELSE [f1 EXCEPT !.error = Some(ERROR_EXECUTION_REVERTED),
                       !.revert_reason =
                           IF output /= <<>>
                           THEN Some(HEX_PREFIX \o hex_encode(output))
                           ELSE @]

\* ClosedFrame with revert_reason written on every failure
ClosedFrame_AlwaysReason(frame, gas_spent, is_success, output, created_address) ==
    LET f1 == [frame EXCEPT !.gas_used = gas_spent]
    IN IF is_success
       THEN IF IsSome(created_address)
            THEN [f1 EXCEPT !.to = Some(Unwrap(created_address)),
                            !.output = Some(into_array(Unwrap(created_address)))]
            ELSE [f1 EXCEPT !.output = Some(output)]
       ELSE [f1 EXCEPT !.error = Some(ERROR_EXECUTION_REVERTED),
                       !.revert_reason = Some(HEX_PREFIX \o hex_encode(output))]

\* ClosedFrame with the constructor's bytes kept as the output of a creation
ClosedFrame_RawCreateOutput(frame, gas_spent, is_success, output, created_address) ==
    LET f1 == [frame EXCEPT !.gas_used = gas_spent]
    IN IF is_success
       THEN IF IsSome(created_address)
            THEN [f1 EXCEPT !.to = Some(Unwrap(created_address)),
                            !.output = Some(output)]
            ELSE [f1 EXCEPT !.output = Some(output)]
       ELSE [f1 EXCEPT !.error = Some(ERROR_EXECUTION_REVERTED),
                       !.revert_reason =
                           IF output /= <<>>
                           THEN Some(HEX_PREFIX \o hex_encode(output))
                           ELSE @]

\* ClosedFrame that keeps only the first returned byte in revert_reason
ClosedFrame_ReasonTruncated(frame, gas_spent, is_success, output, created_address) ==
    LET f1 == [frame EXCEPT !.gas_used = gas_spent]
    IN IF is_success
       THEN IF IsSome(created_address)
            THEN [f1 EXCEPT !.to = Some(Unwrap(created_address)),
                            !.output = Some(into_array(Unwrap(created_address)))]
            ELSE [f1 EXCEPT !.output = Some(output)]
       ELSE [f1 EXCEPT !.error = Some(ERROR_EXECUTION_REVERTED),
                       !.revert_reason =
                           IF output /= <<>>
                           THEN Some(HEX_PREFIX
                                     \o hex_encode(SubSeq(output, 1, 1)))
                           ELSE @]

\* ClosedFrame that leaves output unset when no bytes were returned
ClosedFrame_EmptyOutputNone(frame, gas_spent, is_success, output, created_address) ==
    LET f1 == [frame EXCEPT !.gas_used = gas_spent]
    IN IF is_success
       THEN IF IsSome(created_address)
            THEN [f1 EXCEPT !.to = Some(Unwrap(created_address)),
                            !.output = Some(into_array(Unwrap(created_address)))]
            ELSE [f1 EXCEPT !.output =
                                IF output = <<>> THEN None ELSE Some(output)]
       ELSE [f1 EXCEPT !.error = Some(ERROR_EXECUTION_REVERTED),
                       !.revert_reason =
                           IF output /= <<>>
                           THEN Some(HEX_PREFIX \o hex_encode(output))
                           ELSE @]

\* ClosedFrame that takes the created address whether or not the create
\* succeeded
ClosedFrame_ToOnFailure(frame, gas_spent, is_success, output, created_address) ==
    LET f0 == [frame EXCEPT !.gas_used = gas_spent]
        f1 == IF IsSome(created_address)
              THEN [f0 EXCEPT !.to = Some(Unwrap(created_address))]
              ELSE f0
    IN IF is_success
       THEN IF IsSome(created_address)
            THEN [f1 EXCEPT !.output = Some(into_array(Unwrap(created_address)))]
            ELSE [f1 EXCEPT !.output = Some(output)]
       ELSE [f1 EXCEPT !.error = Some(ERROR_EXECUTION_REVERTED),
                       !.revert_reason =
                           IF output /= <<>>
                           THEN Some(HEX_PREFIX \o hex_encode(output))
                           ELSE @]

\* The frame popped by finalize_frame after its fields are written
ClosedFrame(frame, gas_spent, is_success, output, created_address) ==
    LET f1 == [frame EXCEPT !.gas_used = gas_spent]
    IN IF is_success
       THEN IF IsSome(created_address)
            THEN [f1 EXCEPT !.to = Some(Unwrap(created_address)),
                            !.output = Some(into_array(Unwrap(created_address)))]
            ELSE [f1 EXCEPT !.output = Some(output)]
       ELSE [f1 EXCEPT !.error = Some(ERROR_EXECUTION_REVERTED),
                       !.revert_reason =
                           IF output /= <<>>
                           THEN Some(HEX_PREFIX \o hex_encode(output))
                           ELSE @]

\* finalize_frame that puts the closed frame in front of its siblings
finalize_frame_Prepend(stack, gas_spent, is_success, output, created_address) ==
    IF stack = <<>> THEN stack
    ELSE LET frame == ClosedFrame(Last(stack), gas_spent, is_success,
                                  output, created_address)
             rest == Front(stack)
         IN IF rest /= <<>>
            THEN [rest EXCEPT ![Len(rest)].calls = <<frame>> \o @]
            ELSE Append(rest, frame)

\* finalize_frame that does not push the closed root back
finalize_frame_DropRoot(stack, gas_spent, is_success, output, created_address) ==
    IF stack = <<>> THEN stack
    ELSE LET frame == ClosedFrame(Last(stack), gas_spent, is_success,
                                  output, created_address)
             rest == Front(stack)
         IN IF rest /= <<>>
            THEN [rest EXCEPT ![Len(rest)].calls = Append(@, frame)]
            ELSE rest

\* finalize_frame that attaches the closed frame to the bottom of the stack
finalize_frame_AttachToRoot(stack, gas_spent, is_success, output, created_address) ==
    IF stack = <<>> THEN stack
    ELSE LET frame == ClosedFrame(Last(stack), gas_spent, is_success,
                                  output, created_address)
             rest == Front(stack)
         IN IF rest /= <<>>
            THEN [rest EXCEPT ![1].calls = Append(@, frame)]
            ELSE Append(rest, frame)

\* finalize_frame that pushes the closed frame back whatever is under it
finalize_frame_PushBackAlways(stack, gas_spent, is_success, output, created_address) ==
    IF stack = <<>> THEN stack
    ELSE LET frame == ClosedFrame(Last(stack), gas_spent, is_success,
                                  output, created_address)
             rest == Front(stack)
         IN IF rest /= <<>>
            THEN Append([rest EXCEPT ![Len(rest)].calls = Append(@, frame)],
                        frame)
            ELSE Append(rest, frame)

\* finalize_frame that discards a root that was closed before
finalize_frame_RootOnce(stack, gas_spent, is_success, output, created_address) ==
    IF stack = <<>> THEN stack
    ELSE LET frame == ClosedFrame(Last(stack), gas_spent, is_success,
                                  output, created_address)
             rest == Front(stack)
         IN IF rest /= <<>>
            THEN [rest EXCEPT ![Len(rest)].calls = Append(@, frame)]
            ELSE IF IsSome(Last(stack).output) \/ IsSome(Last(stack).error)
            THEN rest
            ELSE Append(rest, frame)

\* finalize_frame that makes up a frame when the stack is empty
finalize_frame_DefaultOnEmpty(stack, gas_spent, is_success, output, created_address) ==
    IF stack = <<>>
    THEN <<ClosedFrame(NewFrame(0, "CALL", 0, None, 0, 0, <<>>), gas_spent,
                       is_success, output, created_address)>>
    ELSE LET frame == ClosedFrame(Last(stack), gas_spent, is_success,
                                  output, created_address)
             rest == Front(stack)
         IN IF rest /= <<>>
            THEN [rest EXCEPT ![Len(rest)].calls = Append(@, frame)]
            ELSE Append(rest, frame)

\* CallTracer::finalize_frame : the new call_stack
finalize_frame(stack, gas_spent, is_success, output, created_address) ==
    IF stack = <<>> THEN stack
    ELSE LET frame == ClosedFrame(Last(stack), gas_spent, is_success,
                                  output, created_address)
             rest == Front(stack)
         IN IF rest /= <<>>
            THEN [rest EXCEPT ![Len(rest)].calls = Append(@, frame)]
            ELSE Append(rest, frame)

\* into_result that falls back to a default frame
into_result_OrDefault(stack) ==
    IF stack = <<>>
    THEN Some(NewFrame(0, "CALL", 0, None, 0, 0, <<>>))
    ELSE Some(Last(stack))

\* CallTracer::into_result : Option<CallFrame>
into_result(stack) ==
    IF stack = <<>> THEN None ELSE Some(Last(stack))

-----------------------------------------------------------------------------
(* Serialization of a CallFrame (serde derive on CallFrame and LogEntry)    *)
(* A JSON value is a record tagged by j; an object keeps its members in the *)
(* order they are written.                                                  *)

JNull == [j |-> "null"]
JBool(b) == [j |-> "bool", b |-> b]
JString(s) == [j |-> "string", s |-> s]
JArray(items) == [j |-> "array", items |-> items]
JObject(members) == [j |-> "object", members |-> members]
Member(key, value) == [key |-> key, value |-> value]

Keys(object) == {object.members[i].key : i \in 1..Len(object.members)}

\* format!("0x{:x}", value) : lowercase hexadecimal without leading zeros
RECURSIVE hex_digits(_)
hex_digits(n) ==
    IF n < 16 THEN <<HexDigits[n + 1]>>
    ELSE hex_digits(n \div 16) \o <<HexDigits[(n % 16) + 1]>>
hex_u256(value) == JString(HEX_PREFIX \o hex_digits(value))

\* Bytes and Address as a 0x-prefixed hexadecimal string (the letter case
\* of a serialized address is not modelled)
bytes_json(bytes) == JString(HEX_PREFIX \o hex_encode(bytes))
address_json(address) == bytes_json(into_array(address))

\* Option<T> without skip_serializing_if : None is written as null
option_address_json(o) ==
    IF IsSome(o) THEN address_json(Unwrap(o)) ELSE JNull
option_bytes_json(o) == IF IsSome(o) THEN bytes_json(Unwrap(o)) ELSE JNull

\* a field with skip_serializing_if : written only when the test fails
skip_if(skip, member) == IF skip THEN <<>> ELSE <<member>>

serialize_log(l) ==
    JObject(<<Member("address", address_json(l.address)),
              Member("topics",
                     JArray([i \in 1..Len(l.topics) |->
                                JString(<<"topic", l.topics[i]>>)])),
              Member("data", bytes_json(l.data))>>)

\* the members of a serialized CallFrame, in declaration order, under
\* rename_all = "camelCase"
RECURSIVE serialize_frame(_)
serialize_frame(f) ==
    JObject(
        <<Member("type", JString(f.call_type)),
          Member("from", address_json(f.from)),
          Member("to", option_address_json(f.to)),
          Member("value", hex_u256(f.value)),
          Member("gas", hex_u256(f.gas)),
          Member("gasUsed", hex_u256(f.gas_used)),
          Member("input", bytes_json(f.input)),
          Member("output", option_bytes_json(f.output))>>
        \o skip_if(f.error = None,
                   Member("error", JString(Unwrap(f.error))))
        \o skip_if(f.revert_reason = None,
                   Member("revertReason", JString(Unwrap(f.revert_reason))))
        \o <<Member("logs",
                    JArray([i \in 1..Len(f.logs) |-> serialize_log(f.logs[i])]))>>
        \o skip_if(f.calls = <<>>,
                   Member("calls",
                          JArray([i \in 1..Len(f.calls) |->
                                     serialize_frame(f.calls[i])]))))

\* the value written under a key of an object
ValueOf(object, key) ==
    object.members[CHOOSE i \in 1..Len(object.members) :
                      object.members[i].key = key].value

-----------------------------------------------------------------------------
(* What the engine may pass to the hooks *)

\* CallInputs / CreateInputs / outcomes / logs of the structural exploration
TreeCallInputs ==
    [scheme : {0}, caller : {1}, target_address : {2},
     bytecode_address : {3}, transfer_value : {None}, gas_limit : {2},
     input : {<<>>}]
TreeCreateInputs ==
    [scheme : {"Create"}, caller : {1}, value : {0}, gas_limit : {2},
     init_code : {<<>>}]
\* a call that carries calldata to the recipient
DbCallInputs ==
    [scheme : {0}, caller : {1}, target_address : {2},
     bytecode_address : {2}, transfer_value : {None}, gas_limit : {2},
     input : {<<169, 5>>}]
TreeCallOutcomes ==
    [spent : {1}, is_ok : BOOLEAN, output : {<<>>}]
\* the exits of a traced transaction may return bytes
TxCallOutcomes ==
    [spent : {1}, is_ok : BOOLEAN, output : {<<>>}]
    \cup
    [spent : {1}, is_ok : {FALSE}, output : {<<8, 195>>}]
TreeCreateOutcomes ==
    [spent : {1}, is_ok : {TRUE}, output : {<<>>}, address : {Some(3)}]
\* (the n-th log of the engine's r-th transaction carries the bytes r, n as
\* its data, which tells the logs apart)
TreeLogs ==
    [address : {2}, topics : {<<>>}, data : {<<r, n>> : r \in 1..4, n \in 1..8}]

\* ... and of the exploration of the frames' fields
FieldCallInputs ==
    [scheme : 0..3, caller : {1}, target_address : {2},
     bytecode_address : {3}, transfer_value : {None},
     gas_limit : {2}, input : {<<171>>}]
    \cup
    [scheme : {0}, caller : {1}, target_address : {2},
     bytecode_address : {2}, transfer_value : {Some(5)},
     gas_limit : {2}, input : {<<>>}]
FieldCreateInputs ==
    [scheme : {"Create", "Create2"}, caller : {1}, value : {5},
     gas_limit : {2}, init_code : {<<96>>}]
FieldCallOutcomes ==
    [spent : {1}, is_ok : BOOLEAN, output : {<<>>, <<8, 195>>}]
    \cup
    [spent : {0, 2, 3}, is_ok : {TRUE}, output : {<<>>}]
FieldCreateOutcomes ==
    [spent : {1}, is_ok : BOOLEAN, output : {<<8, 195>>},
     address : {None, Some(258)}]
    \cup
    [spent : {2}, is_ok : {FALSE}, output : {<<>>}, address : {None}]
FieldLogs ==
    [address : {2}, topics : {<<7>>}, data : {<<r, n>> : r \in 1..4, n \in 1..8}]

\* What inspect_one_tx may return: Ok(ExecutionResult) or Err(message)
ExecutionResults == {"Success", "Revert", "Halt"}
EngineFaults == {"database error"}

-----------------------------------------------------------------------------
(* History of the engine's own view, updated alongside each hook *)

TopOpen == IF open = <<>> THEN 0 ELSE Last(open)

\* A hook is stray when the engine has no frame open, except for the enter
\* hook of the top-level call itself
Stray(isEnter) == open = <<>> /\ ~(isEnter /\ nEnter = 0)
StrayCount(isEnter) == IF Stray(isEnter) THEN nStray + 1 ELSE nStray

\* The engine ends a frame with the hook of the kind that opened it
MatchesOpen(isCreate) == open /= <<>> => hist[TopOpen].create = isCreate

Entered(isCreate, inputs) ==
    LET id == nEnter + 1
        rec == [parent |-> TopOpen, create |-> isCreate, inputs |-> inputs,
                kids |-> <<>>, logs |-> <<>>, exit |-> None, fins |-> <<>>]
        h1 == IF open = <<>> THEN hist
              ELSE [hist EXCEPT ![TopOpen].kids = Append(@, id)]
    IN /\ nEnter' = id
       /\ open' = Append(open, id)
       /\ hist' = Append(h1, rec)
       /\ wn' = (wn /\ ~Stray(TRUE))
       /\ nStray' = StrayCount(TRUE)
       /\ UNCHANGED nLog

Exited(x) ==
    LET h1 == IF open = <<>> THEN hist
              ELSE [hist EXCEPT ![TopOpen].exit = Some(x)]
        h2 == IF call_stack = <<>> THEN h1
              ELSE [h1 EXCEPT ![Last(call_stack).id].fins = Append(@, x)]
    IN /\ hist' = h2
       /\ open' = IF open = <<>> THEN open ELSE Front(open)
       /\ wn' = (wn /\ open /= <<>>)
       /\ nStray' = StrayCount(FALSE)
       /\ UNCHANGED <<nEnter, nLog>>

Logged(l) ==
    /\ hist' = IF open = <<>> THEN hist
               ELSE [hist EXCEPT ![TopOpen].logs = Append(@, l)]
    /\ wn' = (wn /\ open /= <<>>)
    /\ nLog' = nLog + 1
    /\ nStray' = StrayCount(FALSE)
    /\ UNCHANGED <<nEnter, open>>

-----------------------------------------------------------------------------
(* The Inspector hooks of CallTracer *)

\* Inspector::call
call(CI, maxFrames, maxStray) ==
    /\ pc = "inspect"
    /\ nEnter < maxFrames
    /\ Stray(TRUE) => nStray < maxStray
    /\ \E inputs \in CI :
          /\ call_stack' = Append(call_stack, CallFrameOf(nEnter + 1, inputs))
          /\ Entered(FALSE, inputs)
    /\ UNCHANGED rvars

\* Inspector::create
create(CI, maxFrames, maxStray) ==
    /\ pc = "inspect"
    /\ nEnter < maxFrames
    /\ Stray(TRUE) => nStray < maxStray
    /\ \E inputs \in CI :
          /\ call_stack' = Append(call_stack, CreateFrameOf(nEnter + 1, inputs))
          /\ Entered(TRUE, inputs)
    /\ UNCHANGED rvars

\* Inspector::call_end
call_end(CO, maxStray) ==
    /\ pc = "inspect"
    /\ MatchesOpen(FALSE)
    /\ Stray(FALSE) => nStray < maxStray
    /\ \E outcome \in CO :
          /\ call_stack' = finalize_frame(call_stack, outcome.spent,
                                          outcome.is_ok, outcome.output, None)
          /\ Exited([via |-> "call_end", spent |-> outcome.spent,
                     is_ok |-> outcome.is_ok, output |-> outcome.output,
                     address |-> None])
    /\ UNCHANGED rvars

\* Inspector::create_end
create_end(CO, maxStray) ==
    /\ pc = "inspect"
    /\ MatchesOpen(TRUE)
    /\ Stray(FALSE) => nStray < maxStray
    /\ \E outcome \in CO :
          /\ call_stack' = finalize_frame(call_stack, outcome.spent,
                                          outcome.is_ok, outcome.output,
                                          outcome.address)
          /\ Exited([via |-> "create_end", spent |-> outcome.spent,
                     is_ok |-> outcome.is_ok, output |-> outcome.output,
                     address |-> outcome.address])
    /\ UNCHANGED rvars

\* Inspector::log
log(LG, maxLogs, maxStray) ==
    /\ pc = "inspect"
    /\ nLog < maxLogs
    /\ Stray(FALSE) => nStray < maxStray
    /\ \E l \in {x \in LG : x.data = <<nReq, nLog + 1>>} :
          /\ call_stack' =
                IF call_stack = <<>> THEN call_stack
                ELSE [call_stack EXCEPT ![Len(call_stack)].logs =
                                            Append(@, LogEntryFrom(l))]
          /\ Logged(l)
    /\ UNCHANGED rvars

\* CallTracer::into_result, called on the tracer directly
consume ==
    /\ pc = "inspect"
    /\ root' = Some(into_result(call_stack))
    /\ call_stack' = IF call_stack = <<>> THEN call_stack
                     ELSE Front(call_stack)
    /\ pc' = "consumed"
    /\ UNCHANGED <<args, tx, prestate, ctx, db, journal, inspected, nReq,
                   is_op_stack, result, response, hvars>>

-----------------------------------------------------------------------------
(* The state provider built from the snapshot (trace/database.rs) *)

unwrap_or(o, d) == IF IsSome(o) THEN Unwrap(o) ELSE d

\* the engine's zero-value account
DefaultAccount ==
    [balance |-> 0, nonce |-> 0, code |-> <<>>, storage |-> <<>>]

\* AccountOf with an absent nonce read as 1
AccountOf_NonceOne(details) ==
    [balance |-> unwrap_or(details.balance, DefaultAccount.balance),
     nonce   |-> unwrap_or(details.nonce, 1),
     code    |-> unwrap_or(details.code, DefaultAccount.code),
     storage |-> unwrap_or(details.storage, DefaultAccount.storage)]

\* one AccountDetails materialized: an absent field takes the zero value
AccountOf(details) ==
    [balance |-> unwrap_or(details.balance, DefaultAccount.balance),
     nonce   |-> unwrap_or(details.nonce, DefaultAccount.nonce),
     code    |-> unwrap_or(details.code, DefaultAccount.code),
     storage |-> unwrap_or(details.storage, DefaultAccount.storage)]

create_in_memory_database_from_prestate_trace(prestate_tracer_result) ==
    [a \in DOMAIN prestate_tracer_result |->
        AccountOf(prestate_tracer_result[a])]

\* with_account creating the account as the snapshot's first entry has it
with_account_CopyFirst(database, address) ==
    IF address \in DOMAIN database THEN database
    ELSE [a \in DOMAIN database \cup {address} |->
             IF a = address
             THEN (IF database = <<>> THEN [DefaultAccount EXCEPT !.nonce = 1]
                   ELSE database[1])
             ELSE database[a]]

\* the database after it was asked for an address: an account it lacks is
\* created fully defaulted
with_account(database, address) ==
    IF address \in DOMAIN database THEN database
    ELSE [a \in DOMAIN database \cup {address} |->
             IF a = address THEN DefaultAccount ELSE database[a]]

\* the account the database reports for an address
basic(database, address) == with_account(database, address)[address]

\* Snapshots: the sender's entry as a remote prestate trace gives it, the
\* recipient's entry with any of its fields absent, or entries left out
SenderDetails ==
    [balance |-> Some(7), nonce |-> Some(5), code |-> None, storage |-> None]
RecipientDetails ==
    [balance : {None, Some(3)}, nonce : {None, Some(1)},
     code : {None, Some(<<96>>)}, storage : {None, Some(<<9>>)}]
Snapshots ==
    {<<>>}
    \cup {<<SenderDetails>>}
    \cup {<<SenderDetails, d>> : d \in RecipientDetails}
\* the snapshot of the requests whose call tree is explored
TxSnapshot ==
    <<SenderDetails,
      [balance |-> None, nonce |-> None, code |-> Some(<<96>>),
       storage |-> None]>>
\* the addresses the engine may ask the database for: sender, recipient and
\* one the snapshot never has
Addresses == {1, 2, 3}
TxAddresses == {1}

-----------------------------------------------------------------------------
(* The engine's journal *)

\* the engine loads an account from the database into its journal
load_account(A) ==
    /\ pc = "inspect"
    /\ \E address \in A \ DOMAIN journal :
          LET account == basic(Unwrap(db), address)
          IN /\ db' = Some(with_account(Unwrap(db), address))
             /\ journal' = [a \in DOMAIN journal \cup {address} |->
                               IF a = address
                               THEN [original |-> account, info |-> account]
                               ELSE journal[a]]
    /\ UNCHANGED <<pc, args, tx, prestate, ctx, inspected, nReq, is_op_stack,
                   call_stack, root, result, response, hvars>>

\* write_account writing through to the database
write_account_InPlace(A, maxWrites) ==
    /\ pc = "inspect"
    /\ \E address \in A \cap DOMAIN journal :
          /\ journal[address].info.nonce
                < journal[address].original.nonce + maxWrites
          /\ journal' = [journal EXCEPT ![address].info.nonce = @ + 1]
          /\ db' = Some([Unwrap(db) EXCEPT ![address].nonce = @ + 1])
    /\ UNCHANGED <<pc, args, tx, prestate, ctx, inspected, nReq, is_op_stack,
                   call_stack, root, result, response, hvars>>

\* the engine writes to an account it has loaded (a nonce bump)
write_account(A, maxWrites) ==
    /\ pc = "inspect"
    /\ \E address \in A \cap DOMAIN journal :
          /\ journal[address].info.nonce
                < journal[address].original.nonce + maxWrites
          /\ journal' = [journal EXCEPT ![address].info.nonce = @ + 1]
    /\ UNCHANGED <<pc, args, tx, prestate, ctx, db, inspected, nReq,
                   is_op_stack,
                   call_stack, root, result, response, hvars>>

-----------------------------------------------------------------------------
(* format_and_trace_transaction_internal: parsing the request *)

Ok(v) == [tag |-> "Ok", value |-> v]
Err(e) == [tag |-> "Err", error |-> e]

\* impl fmt::Display for TraceError : the text before the payload
display_prefix(kind) ==
    CASE kind = "TxEnvBuild" -> "Failed to build transaction environment: "
      [] kind = "OpTxBuild" -> "Failed to build Optimism transaction: "
      [] kind = "Execution" -> "Transaction execution failed: "
      [] kind = "BlockConversion" -> "Failed to convert block details: "
      [] kind = "InvalidAddress" -> "Invalid address: "
      [] kind = "InvalidHexData" -> "Invalid hex data: "
      [] kind = "JsonParse" -> "Failed to parse JSON: "
      [] kind = "NoTraceResult" -> "No trace result available from inspector"

\* e.to_string() : the prefix and then the payload of the error, if any
to_string(e) == <<display_prefix(e[1])>> \o SubSeq(e, 2, Len(e))

\* one account of the state diff
serialize_account(account) ==
    JObject(<<Member("info",
                     JObject(<<Member("balance", hex_u256(account.info.balance)),
                               Member("nonce", hex_u256(account.info.nonce)),
                               Member("code", bytes_json(account.info.code))>>))>>)

\* the addresses of a state diff in increasing order
RECURSIVE sorted(_)
sorted(addresses) ==
    IF addresses = {} THEN <<>>
    ELSE LET a == CHOOSE a \in addresses : \A b \in addresses : a <= b
         IN <<a>> \o sorted(addresses \ {a})

\* serde_json::to_string_pretty(&result) on a TraceTransactionResult, under
\* rename_all = "camelCase" (the text is kept as the JSON value it denotes;
\* the members of stateDiff are listed by address)
to_string_pretty(value) ==
    JObject(<<Member("executionResult",
                     JObject(<<Member(value.execution_result, JObject(<<>>))>>)),
              Member("stateDiff",
                     JObject([i \in 1..Len(sorted(DOMAIN value.state_diff)) |->
                        Member(address_json(sorted(DOMAIN value.state_diff)[i]).s,
                               serialize_account(
                                  value.state_diff[sorted(DOMAIN value.state_diff)[i]]))])),
              Member("calls", serialize_frame(value.calls))>>)

\* format_and_trace_transaction returning the error's message alone
format_and_trace_transaction_MessageOnly(r) ==
    IF r.tag = "Ok" THEN to_string_pretty(r.value)
    ELSE JString(to_string(r.error))

\* format_and_trace_transaction : the match on what the internal function
\* returned
format_and_trace_transaction(r) ==
    IF r.tag = "Ok" THEN to_string_pretty(r.value)
    ELSE JObject(<<Member("error", JBool(TRUE)),
                   Member("message", JString(to_string(r.error))),
                   Member("type", JString(r.error))>>)

-----------------------------------------------------------------------------
(* The context the engine is built with *)

\* OpSpecId::default()
OpSpecId_default == "ISTHMUS"

\* L1BlockInfo::default(), as far as the operator fee goes
L1BlockInfo_default ==
    [operator_fee_constant |-> None, operator_fee_scalar |-> None]

\* chain_for with the scalar left unset
chain_for_ConstantOnly(op_spec) ==
    IF op_spec = "ISTHMUS"
    THEN [L1BlockInfo_default EXCEPT !.operator_fee_constant = Some(0)]
    ELSE L1BlockInfo_default

\* the chain context trace_transaction_op sets up for a revision
chain_for(op_spec) ==
    IF op_spec = "ISTHMUS"
    THEN [L1BlockInfo_default EXCEPT !.operator_fee_constant = Some(0),
                                     !.operator_fee_scalar = Some(0)]
    ELSE L1BlockInfo_default

\* OpContext { cfg: cfg_env.with_spec(op_spec), chain, .. }
op_context ==
    [spec |-> OpSpecId_default, disable_eip3607 |-> FALSE,
     chain |-> Some(chain_for(OpSpecId_default))]

\* Context::mainnet().with_db(db).with_cfg(cfg_env).with_block(..)
mainnet_context ==
    [spec |-> "SpecId::default", disable_eip3607 |-> TRUE, chain |-> None]

\* the arguments of a request as trace_transaction receives them: the
\* numbers as given, the addresses and the calldata as parsed
FirstRequest ==
    [chain_id |-> 10, from |-> 1, from_nonce |-> 7, to |-> 2,
     data |-> <<169, 5>>, gas_limit |-> 9, gas_price |-> 4,
     gas_priority_fee |-> 3]
SecondRequest ==
    [chain_id |-> 1, from |-> 3, from_nonce |-> 0, to |-> 1,
     data |-> <<>>, gas_limit |-> 21, gas_price |-> 6,
     gas_priority_fee |-> 0]
TxRequests == {FirstRequest, SecondRequest}

\* how each string argument of a request may parse
RequestInputs ==
    [latest_block_env : {"ok", "bad json", "bad block"},
     prestate_tracer_result : {"ok", "bad json"},
     from : {"ok", "bad"}, to : {"ok", "bad"}, data : {"ok", "bad"},
     request : {FirstRequest}]
ValidInput ==
    [latest_block_env |-> "ok", prestate_tracer_result |-> "ok",
     from |-> "ok", to |-> "ok", data |-> "ok", request |-> FirstRequest]

\* the first ? that returns, in the order of the code
parse_error(i) ==
    IF i.latest_block_env = "bad json"
    THEN Some(<<"JsonParse", "latest_block_env">>)
    ELSE IF i.latest_block_env = "bad block"
    THEN Some(<<"BlockConversion", "latest_block_env">>)
    ELSE IF i.prestate_tracer_result = "bad json"
    THEN Some(<<"JsonParse", "prestate_tracer_result">>)
    ELSE IF i.from = "bad" THEN Some(<<"InvalidAddress", "from">>)
    ELSE IF i.to = "bad" THEN Some(<<"InvalidAddress", "to">>)
    ELSE IF i.data = "bad" THEN Some(<<"InvalidHexData", "data">>)
    ELSE None

\* every argument parses: the trace operation is called
parse_ok ==
    /\ pc = "parse"
    /\ parse_error(args) = None
    /\ pc' = "build"
    /\ UNCHANGED <<args, tx, prestate, ctx, db, journal, inspected, nReq,
                   is_op_stack, call_stack, root, result, response, hvars>>

\* an argument does not parse: ? returns the error
parse_err ==
    /\ pc = "parse"
    /\ IsSome(parse_error(args))
    /\ result' = Some(Err(Unwrap(parse_error(args))))
    /\ response' = Some(format_and_trace_transaction(Unwrap(result')))
    /\ pc' = "done"
    /\ UNCHANGED <<args, tx, prestate, ctx, db, journal, inspected, nReq,
                   is_op_stack, call_stack, root, hvars>>

-----------------------------------------------------------------------------
(* trace_transaction and trace_transaction_op *)

\* TxEnv::builder().chain_id(Some(chain_id)).caller(from)
\*     .kind(TxKind::Call(to)).nonce(from_nonce).gas_limit(gas_limit)
\*     .gas_price(gas_price).gas_priority_fee(Some(gas_priority_fee))
\*     .data(data)
TxEnv_builder(r) ==
    [chain_id |-> Some(r.chain_id), caller |-> r.from,
     kind |-> <<"Call", r.to>>, nonce |-> r.from_nonce,
     gas_limit |-> r.gas_limit, gas_price |-> r.gas_price,
     gas_priority_fee |-> Some(r.gas_priority_fee), data |-> r.data]

\* OpTransaction_builder over a base record without the priority fee
OpTransaction_builder_NoPriorityFee(r) ==
    [base |-> [TxEnv_builder(r) EXCEPT !.gas_priority_fee = None],
     enveloped_tx |-> None, is_system_transaction |-> FALSE, mint |-> 0,
     source_hash |-> [i \in 1..32 |-> 1]]

\* OpTransaction::builder().base(base_tx).enveloped_tx(None)
\*     .not_system_transaction().mint(0u128)
\*     .source_hash(B256::from([1u8; 32]))
OpTransaction_builder(r) ==
    [base |-> TxEnv_builder(r), enveloped_tx |-> None,
     is_system_transaction |-> FALSE, mint |-> 0,
     source_hash |-> [i \in 1..32 |-> 1]]

\* build_tx_ok attaching the tracer of the request before
build_tx_ok_ReuseTracer ==
    /\ pc = "build"
    /\ tx' = Some(Ok(IF is_op_stack THEN OpTransaction_builder(args.request)
                      ELSE TxEnv_builder(args.request)))
    /\ db' = Some(create_in_memory_database_from_prestate_trace(prestate))
    /\ journal' = <<>>
    /\ pc' = "inspect"
    /\ ctx' = Some(IF is_op_stack THEN op_context ELSE mainnet_context)
    /\ UNCHANGED <<args, prestate, inspected, nReq, is_op_stack, call_stack,
                   root, result, response, hvars>>

\* TxEnv::builder()...build()? / OpTransaction::builder()...build()? succeed;
\* CallTracer::new(), the database and the EVM are set up
build_tx_ok ==
    /\ pc = "build"
    /\ tx' = Some(Ok(IF is_op_stack THEN OpTransaction_builder(args.request)
                      ELSE TxEnv_builder(args.request)))
    /\ call_stack' = <<>>
    /\ db' = Some(create_in_memory_database_from_prestate_trace(prestate))
    /\ journal' = <<>>
    /\ pc' = "inspect"
    /\ ctx' = Some(IF is_op_stack THEN op_context ELSE mainnet_context)
    /\ UNCHANGED <<args, prestate, inspected, nReq, is_op_stack, root,
                   result, response, hvars>>

\* build_tx_err with the database built ahead of the transaction record
build_tx_err_AfterDb ==
    /\ pc = "build"
    /\ LET e == IF is_op_stack THEN <<"OpTxBuild">> ELSE <<"TxEnvBuild">>
       IN /\ tx' = Some(Err(e))
          /\ result' = Some(Err(e))
    /\ db' = Some(create_in_memory_database_from_prestate_trace(prestate))
    /\ response' = Some(format_and_trace_transaction(Unwrap(result')))
    /\ pc' = "done"
    /\ UNCHANGED <<args, prestate, ctx, journal, inspected, nReq,
                   is_op_stack, call_stack, root, hvars>>

\* build_tx_err building the base record on its own in the rollup variant
build_tx_err_BaseKind ==
    /\ pc = "build"
    /\ LET e == <<"TxEnvBuild">>
       IN /\ tx' = Some(Err(e))
          /\ result' = Some(Err(e))
    /\ response' = Some(format_and_trace_transaction(Unwrap(result')))
    /\ pc' = "done"
    /\ UNCHANGED <<args, prestate, ctx, db, journal, inspected, nReq,
                   is_op_stack, call_stack, root, hvars>>

\* the build fails and ? returns the converted error
build_tx_err ==
    /\ pc = "build"
    /\ LET e == IF is_op_stack THEN <<"OpTxBuild">> ELSE <<"TxEnvBuild">>
       IN /\ tx' = Some(Err(e))
          /\ result' = Some(Err(e))
    /\ response' = Some(format_and_trace_transaction(Unwrap(result')))
    /\ pc' = "done"
    /\ UNCHANGED <<args, prestate, ctx, db, journal, inspected, nReq,
                   is_op_stack, call_stack, root, hvars>>

\* inspect_ok treating a failed top-level call as a failure of the trace
inspect_ok_FailOnRevert ==
    /\ pc = "inspect"
    /\ \E execution_result \in ExecutionResults :
          LET state_diff == journal
              calls == into_result(call_stack)
          IN /\ inspected' = Some(Ok(execution_result))
             /\ root' = Some(calls)
             /\ result' =
                   IF ~IsSome(calls) THEN Some(Err(<<"NoTraceResult">>))
                   ELSE IF IsSome(Unwrap(calls).error)
                   THEN Some(Err(<<"Execution", "database error">>))
                   ELSE Some(Ok([execution_result |-> execution_result,
                                 state_diff |-> state_diff,
                                 calls |-> Unwrap(calls)]))
    /\ call_stack' = IF call_stack = <<>> THEN call_stack
                     ELSE Front(call_stack)
    /\ response' = Some(format_and_trace_transaction(Unwrap(result')))
    /\ pc' = "done"
    /\ UNCHANGED <<args, tx, prestate, ctx, db, journal, nReq, is_op_stack,
                   hvars>>

\* inspect_one_tx returns Ok(execution_result); the state diff is read from
\* the journal; inspector.into_result().ok_or(TraceError::NoTraceResult)?
\* consumes the tracer; Ok(TraceTransactionResult {..}) is returned
inspect_ok ==
    /\ pc = "inspect"
    /\ \E execution_result \in ExecutionResults :
          LET state_diff == journal
              calls == into_result(call_stack)
          IN /\ inspected' = Some(Ok(execution_result))
             /\ root' = Some(calls)
             /\ result' =
                   IF IsSome(calls)
                   THEN Some(Ok([execution_result |-> execution_result,
                                 state_diff |-> state_diff,
                                 calls |-> Unwrap(calls)]))
                   ELSE Some(Err(<<"NoTraceResult">>))
    /\ call_stack' = IF call_stack = <<>> THEN call_stack
                     ELSE Front(call_stack)
    /\ response' = Some(format_and_trace_transaction(Unwrap(result')))
    /\ pc' = "done"
    /\ UNCHANGED <<args, tx, prestate, ctx, db, journal, nReq, is_op_stack,
                   hvars>>

\* inspect_err returning what the tracer and the journal hold so far
inspect_err_Partial ==
    /\ pc = "inspect"
    /\ \E e \in EngineFaults :
          /\ inspected' = Some(Err(e))
          /\ result' =
                IF call_stack = <<>> THEN Some(Err(<<"Execution", e>>))
                ELSE Some(Ok([execution_result |-> "Halt",
                              state_diff |-> journal,
                              calls |-> call_stack[1]]))
    /\ response' = Some(format_and_trace_transaction(Unwrap(result')))
    /\ pc' = "done"
    /\ UNCHANGED <<args, tx, prestate, ctx, db, journal, nReq, is_op_stack,
                   call_stack, root, hvars>>

\* inspect_err asking the tracer for its root before reporting the fault
inspect_err_TracerFirst ==
    /\ pc = "inspect"
    /\ \E e \in EngineFaults :
          /\ inspected' = Some(Err(e))
          /\ result' =
                IF call_stack = <<>> THEN Some(Err(<<"NoTraceResult">>))
                ELSE Some(Err(<<"Execution", e>>))
    /\ root' = Some(into_result(call_stack))
    /\ call_stack' = IF call_stack = <<>> THEN call_stack
                     ELSE Front(call_stack)
    /\ response' = Some(format_and_trace_transaction(Unwrap(result')))
    /\ pc' = "done"
    /\ UNCHANGED <<args, tx, prestate, ctx, db, journal, nReq, is_op_stack,
                   hvars>>

\* inspect_one_tx returns Err(e), mapped to TraceError::Execution
inspect_err ==
    /\ pc = "inspect"
    /\ \E e \in EngineFaults :
          /\ inspected' = Some(Err(e))
          /\ result' = Some(Err(<<"Execution", e>>))
    /\ response' = Some(format_and_trace_transaction(Unwrap(result')))
    /\ pc' = "done"
    /\ UNCHANGED <<args, tx, prestate, ctx, db, journal, nReq, is_op_stack,
                   call_stack, root, hvars>>

\* the caller makes its next request
new_request(maxRequests) ==
    /\ pc = "done"
    /\ nReq < maxRequests
    /\ nReq' = nReq + 1
    /\ args' \in RequestInputs
    /\ is_op_stack' \in BOOLEAN
    /\ pc' = "parse"
    /\ tx' = None
    /\ inspected' = None
    /\ root' = None
    /\ result' = None
    /\ response' = None
    /\ nEnter' = 0
    /\ open' = <<>>
    /\ hist' = <<>>
    /\ wn' = TRUE
    /\ nLog' = 0
    /\ nStray' = 0
    /\ UNCHANGED <<prestate, ctx, db, journal, call_stack>>

-----------------------------------------------------------------------------
(* Specifications *)

\* The state when format_and_trace_transaction is called
Init ==
    /\ pc = "parse"
    /\ args \in RequestInputs
    /\ tx = None
    /\ prestate = TxSnapshot
    /\ db = None
    /\ ctx = None
    /\ journal = <<>>
    /\ inspected = None
    /\ response = None
    /\ nReq = 1
    /\ is_op_stack \in BOOLEAN
    /\ call_stack = <<>>
    /\ root = None
    /\ result = None
    /\ nEnter = 0
    /\ open = <<>>
    /\ hist = <<>>
    /\ wn = TRUE
    /\ nLog = 0
    /\ nStray = 0

\* One trace request: parse, build, drive one transaction, return
Next ==
    \/ parse_ok
    \/ parse_err
    \/ build_tx_ok
    \/ build_tx_err
    \/ load_account(TxAddresses)
    \/ write_account(TxAddresses, MaxTxWrites)
    \/ call(TreeCallInputs, MaxTxFrames, MaxStray)
    \/ create(TreeCreateInputs, MaxTxFrames, MaxStray)
    \/ call_end(TxCallOutcomes, MaxStray)
    \/ create_end(TreeCreateOutcomes, MaxStray)
    \/ log(TreeLogs, MaxTxLogs, MaxStray)
    \/ inspect_ok
    \/ inspect_err

Spec == Init /\ [][Next]_vars

\* The state after CallTracer::new(), the tracer attached to an engine
InitTracer ==
    /\ pc = "inspect"
    /\ args = ValidInput
    /\ tx = Some(Ok(TxEnv_builder(ValidInput.request)))
    /\ prestate = <<>>
    /\ db = Some(create_in_memory_database_from_prestate_trace(<<>>))
    /\ ctx = Some(mainnet_context)
    /\ journal = <<>>
    /\ inspected = None
    /\ response = None
    /\ nReq = 1
    /\ is_op_stack = FALSE
    /\ call_stack = <<>>
    /\ root = None
    /\ result = None
    /\ nEnter = 0
    /\ open = <<>>
    /\ hist = <<>>
    /\ wn = TRUE
    /\ nLog = 0
    /\ nStray = 0

\* The tracer alone, driven through its hooks in any order and then consumed
NextTracer ==
    \/ call(TreeCallInputs, MaxFrames, MaxStray)
    \/ create(TreeCreateInputs, MaxFrames, MaxStray)
    \/ call_end(TreeCallOutcomes, MaxStray)
    \/ create_end(TreeCreateOutcomes, MaxStray)
    \/ log(TreeLogs, MaxLogs, MaxStray)
    \/ consume

SpecTracer == InitTracer /\ [][NextTracer]_vars

\* The tracer driven by an engine that keeps to one well-nested top-level
\* call (no stray hook), with the richer hook arguments
NextFields ==
    \/ call(FieldCallInputs, MaxFieldFrames, 0)
    \/ create(FieldCreateInputs, MaxFieldFrames, 0)
    \/ call_end(FieldCallOutcomes, 0)
    \/ create_end(FieldCreateOutcomes, 0)
    \/ log(FieldLogs, MaxFieldLogs, 0)
    \/ consume

SpecFields == InitTracer /\ [][NextFields]_vars

\* Several requests one after the other, each with a short transaction
InitRequests ==
    /\ Init
    /\ args = ValidInput

NextRequests ==
    \/ parse_ok
    \/ parse_err
    \/ build_tx_ok
    \/ build_tx_err
    \/ call(TreeCallInputs, MaxReqFrames, MaxStray)
    \/ call_end(TreeCallOutcomes, MaxStray)
    \/ log(TreeLogs, MaxReqLogs, MaxStray)
    \/ inspect_ok
    \/ inspect_err
    \/ new_request(MaxRequests)

SpecRequests == InitRequests /\ [][NextRequests]_vars

\* The state when trace_transaction or trace_transaction_op is called with
\* one of the requests
InitVariants ==
    /\ pc = "build"
    /\ args \in {[ValidInput EXCEPT !.request = r] : r \in TxRequests}
    /\ tx = None
    /\ prestate = TxSnapshot
    /\ db = None
    /\ ctx = None
    /\ journal = <<>>
    /\ inspected = None
    /\ response = None
    /\ nReq = 1
    /\ is_op_stack \in BOOLEAN
    /\ call_stack = <<>>
    /\ root = None
    /\ result = None
    /\ nEnter = 0
    /\ open = <<>>
    /\ hist = <<>>
    /\ wn = TRUE
    /\ nLog = 0
    /\ nStray = 0

\* Either variant of the trace operation over a well-nested event stream
NextVariants ==
    \/ build_tx_ok
    \/ build_tx_err
    \/ call(TreeCallInputs, MaxVarFrames, 0)
    \/ create(TreeCreateInputs, MaxVarFrames, 0)
    \/ call_end(TxCallOutcomes, 0)
    \/ create_end(TreeCreateOutcomes, 0)
    \/ log(TreeLogs, MaxVarLogs, 0)
    \/ inspect_ok
    \/ inspect_err

SpecVariants == InitVariants /\ [][NextVariants]_vars

\* One request over any of the snapshots, the engine loading and writing
\* accounts while it runs a single call
InitDb ==
    /\ pc = "build"
    /\ args = ValidInput
    /\ tx = None
    /\ prestate \in Snapshots
    /\ db = None
    /\ ctx = None
    /\ journal = <<>>
    /\ inspected = None
    /\ response = None
    /\ nReq = 1
    /\ is_op_stack \in BOOLEAN
    /\ call_stack = <<>>
    /\ root = None
    /\ result = None
    /\ nEnter = 0
    /\ open = <<>>
    /\ hist = <<>>
    /\ wn = TRUE
    /\ nLog = 0
    /\ nStray = 0

NextDb ==
    \/ build_tx_ok
    \/ load_account(Addresses)
    \/ write_account(Addresses, MaxWrites)
    \/ call(DbCallInputs, MaxDbFrames, 0)
    \/ call_end(TreeCallOutcomes, 0)
    \/ inspect_ok

SpecDb == InitDb /\ [][NextDb]_vars

-----------------------------------------------------------------------------
(* Frames held by the tracer and by its result *)

RECURSIVE Sub(_)
\* the frames of the tree rooted at f
Sub(f) == {f} \cup UNION {Sub(f.calls[i]) : i \in 1..Len(f.calls)}

Consumed == IsSome(root)
HasRoot == Consumed /\ IsSome(Unwrap(root))
RootFrame == Unwrap(Unwrap(root))

\* every frame on the stack, under a frame of the stack, or in the result
Forest ==
    UNION {Sub(call_stack[i]) : i \in 1..Len(call_stack)}
    \cup (IF HasRoot THEN Sub(RootFrame) ELSE {})

Ids(frames) == [i \in 1..Len(frames) |-> frames[i].id]

\* the stream was one complete well-nested top-level call
Complete == wn /\ nEnter > 0 /\ open = <<>>

\* the fields of f are those its on_exit x writes
ClosedBy(f, x) ==
    /\ f.gas_used = x.spent
    /\ x.is_ok => IsSome(f.output) /\ f.error = None
    /\ ~x.is_ok => f.error = Some(ERROR_EXECUTION_REVERTED)

-----------------------------------------------------------------------------
(* C1: after one complete well-nested top-level call the tracer returns     *)
(* exactly one root, every frame entered is in its tree exactly once, and   *)
(* the children of every frame of the tree are the frames entered while it  *)
(* was the innermost open frame, in the order they were entered.            *)
C1_ChildrenInCallOrder ==
    (Consumed /\ Complete) =>
        /\ HasRoot
        /\ call_stack = <<>>
        /\ {f.id : f \in Sub(RootFrame)} = 1..nEnter
        /\ Cardinality(Sub(RootFrame)) = nEnter
        /\ \A f \in Sub(RootFrame) : Ids(f.calls) = hist[f.id].kids

C1_Witness ==
    /\ Consumed /\ Complete /\ HasRoot
    /\ nEnter = 3
    /\ Len(RootFrame.calls) = 2

(* C2: after one complete well-nested top-level call the stack holds exactly *)
(* one frame, the closed frame of the first on_enter, and into_result        *)
(* returns that frame.                                                       *)
C2_SingleClosedRoot ==
    Complete =>
        /\ ~Consumed =>
              /\ Len(call_stack) = 1
              /\ call_stack[1].id = 1
              /\ ClosedBy(call_stack[1], Unwrap(hist[1].exit))
        /\ Consumed =>
              /\ HasRoot
              /\ RootFrame.id = 1
              /\ ClosedBy(RootFrame, Unwrap(hist[1].exit))
              /\ call_stack = <<>>

C2_Witness ==
    /\ Complete /\ HasRoot
    /\ nEnter >= 2
    /\ RootFrame.id = 1

(* C3: when the stream ends with frames still open, consuming the tracer     *)
(* yields the frame of the first on_enter, with every frame that was still   *)
(* open closed as a failure with no output and attached under its parent.    *)
C3_ForceClosedOnHalt ==
    (Consumed /\ wn /\ open /= <<>>) =>
        /\ HasRoot
        /\ RootFrame.id = 1
        /\ {f.id : f \in Sub(RootFrame)} = 1..nEnter
        /\ \A f \in Sub(RootFrame) :
              (\E i \in 1..Len(open) : open[i] = f.id) =>
                  /\ f.error = Some(ERROR_EXECUTION_REVERTED)
                  /\ f.output = None

\* the frames that finalize_frame has popped at least once
Popped == {f \in Forest : hist[f.id].fins /= <<>>}

(* C4: a frame that finalize_frame has popped is never changed by a later    *)
(* hook: it is found unchanged in every later state.                         *)
C4_PoppedFramesImmutable ==
    [][\A f \in Popped : f \in Forest']_vars

(* C5: the logs of every frame are exactly the logs emitted while that frame *)
(* was the innermost open frame, in emission order.                          *)
C5_LogsOnInnermostOpen ==
    \A f \in Forest :
        f.logs = [i \in 1..Len(hist[f.id].logs) |->
                     LogEntryFrom(hist[f.id].logs[i])]

(* C6 as claimed: every frame has 0 <= gas_used <= gas.                      *)
C6_GasUsedWithinGas ==
    \A f \in Forest : 0 <= f.gas_used /\ f.gas_used <= f.gas

(* C6 amended: gas is the gas limit given at on_enter; gas_used is 0 until   *)
(* the frame is closed and then exactly the gas_spent reported at its        *)
(* on_exit, so gas_used <= gas holds exactly when the engine reported        *)
(* gas_spent <= gas_limit.                                                   *)
C6_GasUsedIsGasSpent ==
    \A f \in Forest :
        LET h == hist[f.id]
        IN /\ f.gas = h.inputs.gas_limit
           /\ f.gas_used = IF h.fins = <<>> THEN 0 ELSE Last(h.fins).spent
           /\ 0 <= f.gas_used
           /\ (f.gas_used <= f.gas) <=>
                 (h.fins = <<>> \/ Last(h.fins).spent <= h.inputs.gas_limit)

C6_Witness ==
    \E f \in Forest :
        /\ hist[f.id].fins /= <<>>
        /\ f.gas_used > f.gas

(* C7: a frame closed with success=false has error "execution reverted" and  *)
(* has revert_reason set exactly when its on_exit returned bytes; a frame    *)
(* closed with success=true has neither error nor revert_reason.             *)
C7_ErrorAndRevertReason ==
    \A f \in Forest :
        hist[f.id].fins /= <<>> =>
            LET x == hist[f.id].fins[1]
            IN /\ ~x.is_ok =>
                     /\ f.error = Some(ERROR_EXECUTION_REVERTED)
                     /\ IsSome(f.revert_reason) <=> (x.output /= <<>>)
               /\ x.is_ok => f.error = None /\ f.revert_reason = None

C7_Witness ==
    /\ \E f \in Forest :
          /\ hist[f.id].fins /= <<>>
          /\ ~hist[f.id].fins[1].is_ok
          /\ hist[f.id].fins[1].output /= <<>>
          /\ IsSome(f.revert_reason)
    /\ \E f \in Forest :
          /\ hist[f.id].fins /= <<>>
          /\ ~hist[f.id].fins[1].is_ok
          /\ hist[f.id].fins[1].output = <<>>

(* C8: a DELEGATECALL frame has from = the target (storage context) address  *)
(* and to = the bytecode address of its on_enter.                            *)
C8_DelegateCallAddressing ==
    \A f \in Forest :
        f.call_type = "DELEGATECALL" =>
            /\ f.from = hist[f.id].inputs.target_address
            /\ f.to = Some(hist[f.id].inputs.bytecode_address)

C8_Witness ==
    \E f \in Forest :
        /\ f.call_type = "DELEGATECALL"
        /\ hist[f.id].fins /= <<>>
        /\ hist[f.id].inputs.caller /= hist[f.id].inputs.target_address
        /\ hist[f.id].inputs.target_address /= hist[f.id].inputs.bytecode_address

(* C9: a CREATE or CREATE2 frame closed with success=true and a created      *)
(* address has to = that address and output = the 20 bytes of that address,  *)
(* not the bytes the constructor returned.                                   *)
C9_CreateOutputIsAddress ==
    \A f \in Forest :
        (/\ f.call_type \in {"CREATE", "CREATE2"}
         /\ hist[f.id].fins /= <<>>
         /\ hist[f.id].fins[1].is_ok
         /\ IsSome(hist[f.id].fins[1].address)) =>
            LET address == Unwrap(hist[f.id].fins[1].address)
            IN /\ f.to = Some(address)
               /\ f.output = Some(into_array(address))
               /\ Len(Unwrap(f.output)) = 20
               /\ Unwrap(f.output)[19] * 256 + Unwrap(f.output)[20] = address
               /\ f.output /= Some(hist[f.id].fins[1].output)

C9_Witness ==
    \E f \in Forest :
        /\ f.call_type = "CREATE2"
        /\ hist[f.id].fins /= <<>>
        /\ hist[f.id].fins[1].is_ok
        /\ IsSome(hist[f.id].fins[1].address)
        /\ hist[f.id].fins[1].output /= <<>>

(* C10: when no call or create hook was ever seen, into_result yields no     *)
(* frame and the trace operation, in both variants, returns NoTraceResult;   *)
(* a trace that returns Ok carries a frame created by an on_enter.           *)
C10_NoEnterNoTraceResult ==
    /\ (Consumed /\ nEnter = 0) => ~HasRoot
    /\ (pc = "done" /\ Consumed /\ nEnter = 0) =>
          result = Some(Err(<<"NoTraceResult">>))
    /\ (pc = "done" /\ IsSome(result) /\ Unwrap(result).tag = "Ok") =>
          /\ nEnter > 0
          /\ Unwrap(result).value.calls.id \in 1..nEnter
          /\ Unwrap(result).value.calls = RootFrame

C10_Witness ==
    /\ pc = "done" /\ Consumed /\ nEnter = 0 /\ is_op_stack /\ nStray > 0
    /\ result = Some(Err(<<"NoTraceResult">>))

-----------------------------------------------------------------------------
\* the frames the engine has entered and not exited
OpenFrames == {f \in Forest : \E i \in 1..Len(open) : open[i] = f.id}

\* the four fields that finalize_frame writes
ExitFields(f) == <<f.gas_used, f.output, f.error, f.revert_reason>>

(* C11: every frame that is still open has gas_used = 0 and output, error   *)
(* and revert_reason unset, and these four fields of a frame change only in *)
(* a step in which an exit hook pops that frame from the top of the stack.  *)
C11_OpenFramesUnwritten ==
    /\ [](\A f \in OpenFrames : ExitFields(f) = <<0, None, None, None>>)
    /\ [][\A f \in Forest : \A g \in Forest' :
             (g.id = f.id /\ ExitFields(g) /= ExitFields(f)) =>
                 /\ call_stack /= <<>>
                 /\ f = Last(call_stack)
                 /\ Len(hist'[f.id].fins) = Len(hist[f.id].fins) + 1
                 /\ g = ClosedFrame(f, Last(hist'[f.id].fins).spent,
                                    Last(hist'[f.id].fins).is_ok,
                                    Last(hist'[f.id].fins).output,
                                    Last(hist'[f.id].fins).address)]_vars

C11_Witness ==
    /\ Len(open) = 2
    /\ \E f \in OpenFrames : f.id = 2 /\ f.logs /= <<>>
    /\ \E f \in OpenFrames : f.id = 1 /\ f.calls = <<>>

-----------------------------------------------------------------------------
(* What a request returns *)

Returned == pc = "done" /\ IsSome(result)
ReturnedOk == Returned /\ Unwrap(result).tag = "Ok"
ReturnedErr == Returned /\ Unwrap(result).tag = "Err"

\* the values a failing request may carry
TraceErrors ==
    {<<"TxEnvBuild">>, <<"OpTxBuild">>, <<"NoTraceResult">>}
    \cup {<<"Execution", e>> : e \in EngineFaults}
    \cup {<<"JsonParse", "latest_block_env">>,
          <<"BlockConversion", "latest_block_env">>,
          <<"JsonParse", "prestate_tracer_result">>,
          <<"InvalidAddress", "from">>, <<"InvalidAddress", "to">>,
          <<"InvalidHexData", "data">>}

TxBuildFailed == IsSome(tx) /\ Unwrap(tx).tag = "Err"
EngineFaulted == IsSome(inspected) /\ Unwrap(inspected).tag = "Err"

(* C12: nothing is returned before the request ends; what it returns is     *)
(* either Ok with exactly the execution outcome the engine reported, the    *)
(* journal as state diff and the root frame the tracer gave, or an Err that *)
(* carries an error value and no part of a trace; it is an Err whenever the *)
(* transaction build failed, the engine faulted or the tracer had no root.  *)
C12_CompleteResultOrError ==
    /\ pc /= "done" => result = None
    /\ pc = "done" =>
          /\ IsSome(result)
          /\ \/ /\ Unwrap(result).tag = "Ok"
                /\ DOMAIN Unwrap(result) = {"tag", "value"}
                /\ DOMAIN Unwrap(result).value =
                      {"execution_result", "state_diff", "calls"}
                /\ inspected = Some(Ok(Unwrap(result).value.execution_result))
                /\ Unwrap(result).value.state_diff = journal
                /\ HasRoot
                /\ Unwrap(result).value.calls = RootFrame
             \/ /\ Unwrap(result).tag = "Err"
                /\ DOMAIN Unwrap(result) = {"tag", "error"}
                /\ Unwrap(result).error \in TraceErrors
    /\ TxBuildFailed => ReturnedErr
    /\ EngineFaulted => ReturnedErr
    /\ (Consumed /\ ~HasRoot) => ReturnedErr

C12_Witness ==
    /\ ReturnedOk
    /\ Unwrap(result).value.execution_result = "Revert"
    /\ Unwrap(result).value.state_diff /= <<>>
    /\ Unwrap(result).value.calls.calls /= <<>>

\* the engine saw its top-level call end in failure (a revert or a halt)
TopLevelFailed ==
    Complete /\ ~Unwrap(hist[1].exit).is_ok

(* C13: when the top-level call of a transaction ended in failure and the   *)
(* engine reported no fault of its own, the request returns Ok with a root  *)
(* frame whose error is the revert marker and whose revert_reason is set    *)
(* exactly when the call returned bytes.                                    *)
C13_FailedCallIsSuccessfulTrace ==
    (pc = "done" /\ TopLevelFailed /\ ~EngineFaulted) =>
        /\ ReturnedOk
        /\ Unwrap(result).value.calls.id = 1
        /\ Unwrap(result).value.calls.error = Some(ERROR_EXECUTION_REVERTED)
        /\ Unwrap(result).value.calls.revert_reason =
              IF Unwrap(hist[1].exit).output = <<>> THEN None
              ELSE Some(HEX_PREFIX \o hex_encode(Unwrap(hist[1].exit).output))

C13_Witness ==
    /\ pc = "done"
    /\ TopLevelFailed
    /\ ReturnedOk
    /\ Unwrap(result).value.execution_result = "Revert"
    /\ IsSome(Unwrap(result).value.calls.revert_reason)
    /\ Unwrap(result).value.calls.calls /= <<>>

\* the errors of malformed input and of transaction construction
InputErrors ==
    {<<"JsonParse", "latest_block_env">>,
     <<"BlockConversion", "latest_block_env">>,
     <<"JsonParse", "prestate_tracer_result">>,
     <<"InvalidAddress", "from">>, <<"InvalidAddress", "to">>,
     <<"InvalidHexData", "data">>}
BuildErrors == {<<"TxEnvBuild">>, <<"OpTxBuild">>}

\* nothing of the execution has happened: no database, no tracer hook, no
\* account loaded, no answer from the engine
NothingExecuted ==
    /\ db = None
    /\ journal = <<>>
    /\ inspected = None
    /\ call_stack = <<>>
    /\ nEnter = 0 /\ nLog = 0 /\ nStray = 0
    /\ ~Consumed

(* C14: a request whose arguments do not parse ends with the error of the   *)
(* first argument that fails and never builds a transaction; and whenever a *)
(* request has returned a parsing or a transaction-construction error, no   *)
(* database has been built and the engine has executed nothing.             *)
C14_InputFailuresPrecedeExecution ==
    /\ IsSome(parse_error(args)) =>
          /\ tx = None
          /\ NothingExecuted
          /\ pc = "done" => result = Some(Err(Unwrap(parse_error(args))))
    /\ TxBuildFailed => ReturnedErr /\ Unwrap(result).error \in BuildErrors
    /\ (ReturnedErr /\ Unwrap(result).error \in InputErrors \cup BuildErrors)
          => NothingExecuted

C14_Witness ==
    /\ ReturnedErr
    /\ Unwrap(result).error = <<"InvalidHexData", "data">>
    /\ args.latest_block_env = "ok" /\ args.from = "ok"

\* every frame of the tree of f, and every log in it, was observed in
\* request r
ObservedIn(f, r) ==
    \A g \in Sub(f) :
        /\ g.req = r
        /\ \A i \in 1..Len(g.logs) : g.logs[i].data[1] = r

(* C15: the tracer attached when a request starts executing has an empty    *)
(* stack; while a request executes, and in what it returns, every frame and *)
(* every log was observed in that same request; and a request runs the      *)
(* engine once: after inspect_one_tx has answered, the request is over.     *)
C15_FreshTracerPerRequest ==
    /\ [][(pc = "build" /\ pc' = "inspect") => call_stack' = <<>>]_vars
    /\ [](pc = "inspect" => \A f \in Forest : ObservedIn(f, nReq))
    /\ [](ReturnedOk => ObservedIn(Unwrap(result).value.calls, nReq))
    /\ [](IsSome(inspected) => pc = "done")

C15_Witness ==
    /\ nReq = 2
    /\ ReturnedOk
    /\ Unwrap(result).value.calls.logs /= <<>>

\* the call kinds of the specification
CallKinds ==
    {"CALL", "CALLCODE", "DELEGATECALL", "STATICCALL", "CREATE", "CREATE2"}

(* C17: every frame the tracer holds has one of the six call kinds: a frame *)
(* made by the create hook is CREATE or CREATE2 according to the create     *)
(* scheme, a frame made by the call hook is CALL, CALLCODE, DELEGATECALL or *)
(* STATICCALL according to the call scheme.                                 *)
C17_CallKindIsOneOfSix ==
    \A f \in Forest :
        /\ f.call_type \in CallKinds
        /\ hist[f.id].create =>
              f.call_type = IF hist[f.id].inputs.scheme = "Create"
                            THEN "CREATE" ELSE "CREATE2"
        /\ ~hist[f.id].create =>
              f.call_type =
                 <<"CALL", "CALLCODE", "DELEGATECALL",
                   "STATICCALL">>[hist[f.id].inputs.scheme + 1]

C17_Witness ==
    /\ HasRoot
    /\ RootFrame.call_type = "STATICCALL"
    /\ RootFrame.calls /= <<>>
    /\ RootFrame.calls[1].call_type = "CREATE2"

-----------------------------------------------------------------------------
(* The state provider *)

Built == IsSome(db)
\* the account the engine has loaded for an address
Loaded(a) == journal[a].original

C19_OmittedAccountsDefault ==
    Built =>
        \A a \in Addresses \ DOMAIN prestate :
            /\ basic(Unwrap(db), a) = DefaultAccount
            /\ a \in DOMAIN journal =>
                  /\ Loaded(a) = DefaultAccount
                  /\ a \in DOMAIN Unwrap(db)

C19_Witness ==
    /\ prestate = <<>>
    /\ {1, 2} \subseteq DOMAIN journal
    /\ Loaded(1) = DefaultAccount /\ Loaded(2) = DefaultAccount
    /\ nEnter > 0

(* C20: no step changes the snapshot; once the database is built no step    *)
(* changes an account it holds; the engine's writes are in the journal,     *)
(* which is returned as the state diff.                                     *)
C20_SnapshotUnchanged ==
    /\ [][prestate' = prestate]_vars
    /\ [][(Built /\ IsSome(db')) =>
             \A a \in DOMAIN Unwrap(db) :
                 a \in DOMAIN Unwrap(db') /\ Unwrap(db')[a] = Unwrap(db)[a]]_vars
    /\ [](ReturnedOk => Unwrap(result).value.state_diff = journal)

C20_Witness ==
    /\ ReturnedOk
    /\ \E a \in DOMAIN prestate :
          /\ a \in DOMAIN Unwrap(result).value.state_diff
          /\ Unwrap(result).value.state_diff[a].info
                /= Unwrap(result).value.state_diff[a].original
          /\ Unwrap(db)[a] = Unwrap(result).value.state_diff[a].original

(* C21: in the serialized form of every frame of the tree the tracer        *)
(* returns, a member to, output, error or revertReason is present only when *)
(* the field is set, and no member of the object is null.                   *)
C21_AbsentOptionalsOmitted ==
    (HasRoot /\ Complete) => \A f \in Sub(RootFrame) :
        /\ "to" \in Keys(serialize_frame(f)) <=> IsSome(f.to)
        /\ "output" \in Keys(serialize_frame(f)) <=> IsSome(f.output)
        /\ "error" \in Keys(serialize_frame(f)) <=> IsSome(f.error)
        /\ "revertReason" \in Keys(serialize_frame(f))
              <=> IsSome(f.revert_reason)
        /\ \A k \in Keys(serialize_frame(f)) :
              ValueOf(serialize_frame(f), k).j /= "null"

-----------------------------------------------------------------------------
(* The engine's context and the boundary *)

\* the revisions for which trace_transaction_op supplies operator-fee
\* parameters
OperatorFeeRevisions == {"ISTHMUS"}

\* the engine has run some of the transaction
Executing == nEnter > 0 \/ nLog > 0 \/ journal /= <<>> \/ IsSome(inspected)

ResultKeys == {"executionResult", "stateDiff", "calls"}

(* C23: a request that has ended has returned a JSON text, and none before; *)
(* when the request failed the text is an object with exactly the members   *)
(* error = true, message and type, the last two strings; when it succeeded  *)
(* the text is the trace result.                                            *)
C23_BoundaryReturnsJson ==
    /\ pc /= "done" => response = None
    /\ pc = "done" =>
          /\ IsSome(response)
          /\ Unwrap(response).j = "object"
    /\ ReturnedErr =>
          /\ Keys(Unwrap(response)) = {"error", "message", "type"}
          /\ Keys(Unwrap(response)) \cap ResultKeys = {}
          /\ ValueOf(Unwrap(response), "error") = JBool(TRUE)
          /\ ValueOf(Unwrap(response), "message").j = "string"
          /\ ValueOf(Unwrap(response), "type").j = "string"
          /\ ValueOf(Unwrap(response), "type").s = Unwrap(result).error
    /\ ReturnedOk => Keys(Unwrap(response)) = ResultKeys

C23_Witness ==
    /\ ReturnedErr
    /\ Executing
    /\ Unwrap(result).error[1] = "Execution"
    /\ ValueOf(Unwrap(response), "message").s
          = <<"Transaction execution failed: ", "database error">>

-----------------------------------------------------------------------------
(* The effect of single hooks on the stack *)

\* this step is an exit hook that found a frame on the stack
ExitStep ==
    /\ call_stack /= <<>>
    /\ Len(hist) >= Last(call_stack).id
    /\ Len(hist') >= Last(call_stack).id
    /\ Len(hist'[Last(call_stack).id].fins)
          = Len(hist[Last(call_stack).id].fins) + 1

\* f with the fields an exit may write taken from g
WithExitFieldsOf(f, g) ==
    [f EXCEPT !.gas_used = g.gas_used, !.to = g.to, !.output = g.output,
              !.error = g.error, !.revert_reason = g.revert_reason]

(* C24: an exit hook that finds at least two frames on the stack shortens   *)
(* the stack by its top frame, leaves every frame under the new top as it   *)
(* was, changes the new top only by one more element at the end of its      *)
(* calls, and that element is the old top frame with nothing but its exit   *)
(* fields written.                                                          *)
C24_ExitReparentsTop ==
    [][(Len(call_stack) >= 2 /\ ExitStep) =>
          LET n == Len(call_stack)
          IN /\ Len(call_stack') = n - 1
             /\ \A i \in 1..(n - 2) : call_stack'[i] = call_stack[i]
             /\ Len(call_stack'[n - 1].calls)
                   = Len(call_stack[n - 1].calls) + 1
             /\ call_stack'[n - 1] =
                   [call_stack[n - 1] EXCEPT
                       !.calls = Append(@, Last(call_stack'[n - 1].calls))]
             /\ WithExitFieldsOf(Last(call_stack'[n - 1].calls), call_stack[n])
                   = call_stack[n]]_vars

C24_Witness ==
    /\ wn
    /\ Len(call_stack) = 1
    /\ Len(call_stack[1].calls) = 2
    /\ call_stack[1].logs /= <<>>

\* the number of frames in a tree and in a list of trees
RECURSIVE Size(_), SizeAll(_)
Size(f) == 1 + SizeAll(f.calls)
SizeAll(frames) ==
    IF frames = <<>> THEN 0
    ELSE Size(frames[1]) + SizeAll(Tail(frames))

\* the frames the tracer holds, counted with repetitions
Held == SizeAll(call_stack) + (IF HasRoot THEN Size(RootFrame) ELSE 0)

\* the number of frames the engine has exited
nExit == Cardinality({i \in 1..Len(hist) : IsSome(hist[i].exit)})

(* C25: while the stream is well nested, the tracer holds as many frames as *)
(* there were enter hooks, one for each of them, and while the engine has a *)
(* frame open the stack holds exactly the open frames, bottom to top: its   *)
(* depth is the number of enter hooks minus the number of exit hooks.       *)
C25_FramesMatchEnters ==
    wn =>
        /\ Held = nEnter
        /\ {f.id : f \in Forest} = 1..nEnter
        /\ (pc = "inspect" /\ open /= <<>>) =>
              /\ Len(call_stack) = nEnter - nExit
              /\ Ids(call_stack) = open

C25_Witness ==
    /\ wn
    /\ pc = "inspect"
    /\ nEnter = 3
    /\ nExit = 1
    /\ Len(call_stack) = 2
    /\ call_stack[1].calls /= <<>>

(* C26: while hooks may fire, the stack is empty exactly when no enter hook *)
(* has been seen, whatever hooks followed, surplus exits included; and      *)
(* consuming the tracer gives a frame exactly when an enter hook was seen.  *)
C26_StackNonEmptyAfterEnter ==
    /\ pc = "inspect" => (call_stack = <<>> <=> nEnter = 0)
    /\ Consumed => (HasRoot <=> nEnter > 0)

C26_Witness ==
    /\ Consumed /\ HasRoot
    /\ nStray > 0
    /\ Len(hist[1].fins) = 2
    /\ open = <<>>

-----------------------------------------------------------------------------
(* The fields written at exit *)

\* the frame as the enter hook with ordinal id made it
EntryFrame(id) ==
    IF hist[id].create THEN CreateFrameOf(id, hist[id].inputs)
    ELSE CallFrameOf(id, hist[id].inputs)

\* the frames the engine has exited, each with its exit
ExitedFrames == {f \in Forest : IsSome(hist[f.id].exit)}
ExitOf(f) == Unwrap(hist[f.id].exit)

(* C27: a frame exited with success and no created address has as output    *)
(* exactly the bytes returned, set even when there are none, and has to,    *)
(* error and revert_reason as the enter hook left them.                     *)
C27_SuccessOutputIsReturnedBytes ==
    \A f \in ExitedFrames :
        (ExitOf(f).is_ok /\ ExitOf(f).address = None) =>
            /\ f.output = Some(ExitOf(f).output)
            /\ f.to = EntryFrame(f.id).to
            /\ f.error = None
            /\ f.revert_reason = None

C27_Witness ==
    /\ \E f \in ExitedFrames :
          /\ ExitOf(f).is_ok /\ ExitOf(f).output = <<>>
          /\ f.call_type = "DELEGATECALL"
          /\ f.output = Some(<<>>)
    /\ \E f \in ExitedFrames :
          /\ ExitOf(f).is_ok /\ ExitOf(f).address = None
          /\ f.call_type = "CREATE"
          /\ f.output = Some(<<8, 195>>)

(* C28: a frame exited with failure has output unset and to as the enter    *)
(* hook left it, whatever bytes and created address the exit reports; a     *)
(* failed CREATE or CREATE2 frame has to unset.                             *)
C28_FailureKeepsOutputAndTo ==
    \A f \in ExitedFrames :
        ~ExitOf(f).is_ok =>
            /\ f.output = None
            /\ f.to = EntryFrame(f.id).to
            /\ hist[f.id].create => f.to = None

C28_Witness ==
    /\ \E f \in ExitedFrames :
          /\ ~ExitOf(f).is_ok
          /\ ExitOf(f).address = Some(258)
          /\ ExitOf(f).output /= <<>>
          /\ f.call_type = "CREATE2"
          /\ f.to = None
    /\ \E f \in ExitedFrames :
          /\ ~ExitOf(f).is_ok
          /\ f.call_type = "CALL"
          /\ f.to = Some(2)

-----------------------------------------------------------------------------
(* Hooks on an empty stack *)

\* a step of log, call_end or create_end: the run stays in the engine and no
\* frame is entered
LogOrExitStep ==
    /\ pc = "inspect" /\ pc' = "inspect"
    /\ nEnter' = nEnter

(* C29: a log hook and an exit hook that find the stack empty leave it      *)
(* empty and leave the tracer's root, the result and the response as they   *)
(* were: no frame is made and nothing is reported.                          *)
C29_EmptyStackHooksNoOp ==
    [][(LogOrExitStep /\ call_stack = <<>>) =>
          /\ call_stack' = <<>>
          /\ root' = root
          /\ result' = result
          /\ response' = response]_vars

C29_Witness ==
    /\ pc = "inspect"
    /\ call_stack = <<>>
    /\ nStray > 0

-----------------------------------------------------------------------------
(* The revert reason *)

\* the value of a lowercase hexadecimal digit
hex_value(c) == CHOOSE v \in 0..15 : HexDigits[v + 1] = c

\* the bytes a string of lowercase hexadecimal digits spells, two digits to
\* the byte, high nibble first
RECURSIVE hex_decode(_)
hex_decode(digits) ==
    IF Len(digits) < 2 THEN <<>>
    ELSE <<16 * hex_value(digits[1]) + hex_value(digits[2])>>
         \o hex_decode(SubSeq(digits, 3, Len(digits)))

\* reason is "0x" and the lowercase hexadecimal encoding of bytes
IsHexOf(reason, bytes) ==
    /\ Len(reason) = 2 + 2 * Len(bytes)
    /\ SubSeq(reason, 1, 2) = HEX_PREFIX
    /\ \A i \in 3..Len(reason) : \E v \in 0..15 : HexDigits[v + 1] = reason[i]
    /\ hex_decode(SubSeq(reason, 3, Len(reason))) = bytes

\* byte sequences a failing frame may return: a leading zero byte, digits
\* above nine in either nibble, the largest byte
RevertSamples ==
    {<<0>>, <<0, 10>>, <<8, 195>>, <<255, 171, 16>>, <<1, 0, 0, 160>>}

(* C30: a frame exited with failure and returned bytes has as revert_reason  *)
(* "0x" and two lowercase hexadecimal digits for each returned byte, which   *)
(* decode to exactly the returned bytes; so has the frame the exit code      *)
(* makes of any sample of returned bytes.                                    *)
C30_RevertReasonIsHexOfOutput ==
    /\ \A f \in ExitedFrames :
          (~ExitOf(f).is_ok /\ ExitOf(f).output /= <<>>) =>
              /\ IsSome(f.revert_reason)
              /\ IsHexOf(Unwrap(f.revert_reason), ExitOf(f).output)
    /\ \A f \in ExitedFrames : \A bytes \in RevertSamples :
          LET g == ClosedFrame(EntryFrame(f.id), 1, FALSE, bytes,
                               ExitOf(f).address)
          IN /\ IsSome(g.revert_reason)
             /\ IsHexOf(Unwrap(g.revert_reason), bytes)

C30_Witness ==
    \E f \in ExitedFrames :
        /\ ~ExitOf(f).is_ok
        /\ ExitOf(f).output = <<8, 195>>
        /\ f.revert_reason = Some(<<"0", "x", "0", "8", "c", "3">>)

-----------------------------------------------------------------------------
(* The addresses of a frame *)

\* the exit that closed f reported success and a created address
CreatedBy(f) ==
    /\ hist[f.id].fins /= <<>>
    /\ hist[f.id].fins[1].is_ok
    /\ IsSome(hist[f.id].fins[1].address)

(* C31: a CALL, CALLCODE or STATICCALL frame has from = the caller and to =  *)
(* the target address its enter hook was given, open or closed; a CREATE or *)
(* CREATE2 frame has from = the caller of its enter hook and has to unset   *)
(* as long as no exit has closed it with success and a created address.     *)
C31_FromAndToOfEnter ==
    \A f \in Forest :
        /\ f.call_type \in {"CALL", "CALLCODE", "STATICCALL"} =>
              /\ ~hist[f.id].create
              /\ f.from = hist[f.id].inputs.caller
              /\ f.to = Some(hist[f.id].inputs.target_address)
        /\ f.call_type \in {"CREATE", "CREATE2"} =>
              /\ hist[f.id].create
              /\ f.from = hist[f.id].inputs.caller
              /\ ~CreatedBy(f) => f.to = None

C31_Witness ==
    /\ \E f \in Forest \ OpenFrames :
          /\ f.call_type = "STATICCALL"
          /\ hist[f.id].inputs.target_address
                /= hist[f.id].inputs.bytecode_address
          /\ f.from = 1 /\ f.to = Some(2)
    /\ \E f \in OpenFrames : f.call_type = "CREATE2" /\ f.to = None

-----------------------------------------------------------------------------
(* The two variants of the trace operation *)

\* the base transaction record of the transaction that was built
BaseRecord ==
    IF is_op_stack THEN Unwrap(tx).value.base ELSE Unwrap(tx).value

\* the frame the tracer should hold for the enter hook with ordinal id, by
\* the event stream alone: its logs, the frames entered under it, its exit
RECURSIVE TreeOf(_)
TreeOf(id) ==
    LET h == hist[id]
        entered ==
            [EntryFrame(id) EXCEPT
                !.logs = [i \in 1..Len(h.logs) |-> LogEntryFrom(h.logs[i])],
                !.calls = [i \in 1..Len(h.kids) |-> TreeOf(h.kids[i])]]
    IN IF IsSome(h.exit)
       THEN ClosedFrame(entered, Unwrap(h.exit).spent, Unwrap(h.exit).is_ok,
                        Unwrap(h.exit).output, Unwrap(h.exit).address)
       ELSE entered

\* the frame on top of the stack when the engine returns
TopTree == TreeOf(IF open = <<>> THEN 1 ELSE Last(open))

(* C32: whichever variant runs, the base transaction record it builds has    *)
(* the request's chain id, sender, recipient as a call target, nonce, gas    *)
(* limit, gas price, priority fee and calldata, and the call tree it         *)
(* returns is the one the event stream alone determines; so both variants   *)
(* build the same base record and return the same tree.                     *)
C32_VariantsAgree ==
    /\ (IsSome(tx) /\ Unwrap(tx).tag = "Ok") =>
          /\ BaseRecord.chain_id = Some(args.request.chain_id)
          /\ BaseRecord.caller = args.request.from
          /\ BaseRecord.kind = <<"Call", args.request.to>>
          /\ BaseRecord.nonce = args.request.from_nonce
          /\ BaseRecord.gas_limit = args.request.gas_limit
          /\ BaseRecord.gas_price = args.request.gas_price
          /\ BaseRecord.gas_priority_fee = Some(args.request.gas_priority_fee)
          /\ BaseRecord.data = args.request.data
    /\ ReturnedOk => Unwrap(result).value.calls = TopTree

C32_Witness ==
    /\ is_op_stack
    /\ args.request = SecondRequest
    /\ ReturnedOk
    /\ open = <<>>
    /\ Len(Unwrap(result).value.calls.calls) = 1
    /\ Unwrap(result).value.calls.logs /= <<>>

-----------------------------------------------------------------------------
(* Engine faults *)

\* the step in which the engine reports a fault of its own
FaultStep == ~EngineFaulted /\ EngineFaulted'

(* C33: once the engine has reported a fault of its own, the request has    *)
(* returned an Execution error that carries the engine's message, also when *)
(* no frame was ever entered; the step that reports the fault neither       *)
(* consumes the tracer nor changes its stack.                               *)
C33_EngineFaultIsExecution ==
    /\ [](EngineFaulted =>
             /\ ReturnedErr
             /\ Unwrap(result).error
                   = <<"Execution", Unwrap(inspected).error>>
             /\ ~Consumed)
    /\ [][FaultStep => (call_stack' = call_stack /\ root' = root)]_vars

C33_Witness ==
    /\ EngineFaulted
    /\ nEnter = 0
    /\ call_stack = <<>>
    /\ ReturnedErr
    /\ Unwrap(result).error = <<"Execution", "database error">>

-----------------------------------------------------------------------------
(* The kind of an error *)

\* the variant of TraceError that was returned
ErrorKind == Unwrap(result).error[1]

\* the arguments before the named one parse
BlockParses == args.latest_block_env = "ok"
SnapshotParses == BlockParses /\ args.prestate_tracer_result = "ok"
AddressesParse == SnapshotParses /\ args.from = "ok" /\ args.to = "ok"

(* C34: a returned error has the kind of its cause and of no other: JsonParse *)
(* exactly for block or snapshot JSON that does not parse, InvalidAddress     *)
(* exactly for a sender or recipient string that does not parse,              *)
(* InvalidHexData exactly for calldata that does not parse, TxEnvBuild        *)
(* exactly for a failed build in the base-chain variant and OpTxBuild exactly *)
(* for a failed build in the rollup variant, which never gives TxEnvBuild.    *)
C34_OneKindPerCause ==
    ReturnedErr =>
        /\ ErrorKind = "JsonParse" <=>
              \/ args.latest_block_env = "bad json"
              \/ BlockParses /\ args.prestate_tracer_result = "bad json"
        /\ ErrorKind = "InvalidAddress" <=>
              SnapshotParses /\ (args.from = "bad" \/ args.to = "bad")
        /\ ErrorKind = "InvalidHexData" <=>
              AddressesParse /\ args.data = "bad"
        /\ ErrorKind = "TxEnvBuild" <=> (TxBuildFailed /\ ~is_op_stack)
        /\ ErrorKind = "OpTxBuild" <=> (TxBuildFailed /\ is_op_stack)
        /\ TxBuildFailed => parse_error(args) = None

C34_Witness ==
    /\ ReturnedErr
    /\ is_op_stack
    /\ TxBuildFailed
    /\ ErrorKind = "OpTxBuild"

====
